---- MODULE Spec2Model ----
(***************************************************************************)
(* The manual Voronoi plot of notebooks/matplotlib_SciPy.ipynb: the cell   *)
(* that takes vor.vertices and vor.ridge_vertices and draws one black line *)
(* per ridge that has no -1 entry.  One run of the cell is the loop        *)
(*     for edge in vor_ridges:                                             *)
(*         if -1 in edge: continue                                         *)
(*         edge_start = vor_vertices[edge[0]]                              *)
(*         edge_end = vor_vertices[edge[1]]                                *)
(*         ax_manual.plot([xs], [ys], color='black')                       *)
(* Indices are Python's (0-based); sequences here are 1-based, so Python's *)
(* a[i] is a[i + 1] below.                                                 *)
(***************************************************************************)
EXTENDS Integers, Sequences, FiniteSets, TLC

VARIABLES
    vor_vertices,   \* the ndarray of Voronoi vertices, a sequence of <<x, y>>
    vor_ridges,     \* the list of ridges, each a list of integers
    pc,             \* "loop", "done", or "IndexError" (the cell raised)
    pos,            \* how many ridges the for loop's iterator has handed out
    lines,          \* the lines drawn on ax_manual so far, in drawing order
    shown           \* what the previous run of the cell left: NoRun or its outcome

vars == <<vor_vertices, vor_ridges, pc, pos, lines, shown>>

(***************************************************************************)
(* Bounds of the model.                                                    *)
(***************************************************************************)
MaxVertices == 2    \* vertex arrays of 0..MaxVertices points
MaxRidges == 2      \* ridge lists of 0..MaxRidges pairs
MaxOddRidges == 2   \* ridge lists of 0..MaxOddRidges ridges of 0 to 3 entries

(***************************************************************************)
(* Program constants.                                                      *)
(***************************************************************************)
Sentinel == -1

NoRun == [pc |-> "none", lines |-> <<>>]

(***************************************************************************)
(* Inputs.  The k-th vertex (0-based) lies on the staircase (0,0), (1,0),  *)
(* (1,1), (2,1), ...: distinct points, most with x # y.  Ridge entries run *)
(* from one below the sentinel to one past the last vertex, so that every  *)
(* kind of entry occurs: the sentinel, a valid index, an index too large,  *)
(* and a negative index other than the sentinel.                           *)
(***************************************************************************)
Vertex(k) == <<(k + 1) \div 2, k \div 2>>

VertexArrays == {[k \in 1..n |-> Vertex(k - 1)] : n \in 0..MaxVertices}

Entries(n) == (Sentinel - 1)..n

SeqsUpTo(S, n) == UNION {[1..m -> S] : m \in 0..n}

PairRidges(n) == [1..2 -> Entries(n)]

\* for ridges of any cardinality: the sentinel, the first index, one too large
OddEntries(n) == {Sentinel, 0, n}

AnyRidges(n) == SeqsUpTo(OddEntries(n), 3)

RidgeLists(n) ==
    SeqsUpTo(PairRidges(n), MaxRidges) \cup SeqsUpTo(AnyRidges(n), MaxOddRidges)

(***************************************************************************)
(* The loop body's pure parts.                                             *)
(***************************************************************************)
\* variant: only the first entry is compared with the sentinel
FirstIsSentinel(r) == Len(r) >= 1 /\ r[1] = Sentinel

\* variant: a ridge is skipped only when all its entries are the sentinel
AllSentinel(r) == Len(r) >= 1 /\ \A k \in 1..Len(r) : r[k] = Sentinel

\* -1 in edge
HasSentinel(r) == \E k \in 1..Len(r) : r[k] = Sentinel

\* a[i] raises IndexError unless -len(a) <= i < len(a)
InRange(n, i) == -n <= i /\ i < n

\* a[i] for an index in range: a negative index counts from the end
Item(a, i) == IF i >= 0 THEN a[i + 1] ELSE a[Len(a) + i + 1]

\* edge[0], vor_vertices[edge[0]], edge[1], vor_vertices[edge[1]] all succeed
Resolves(r) ==
    /\ Len(r) >= 1
    /\ InRange(Len(vor_vertices), r[1])
    /\ Len(r) >= 2
    /\ InRange(Len(vor_vertices), r[2])

edge_start(r) == Item(vor_vertices, r[1])

edge_end(r) == Item(vor_vertices, r[2])

\* variant: the line is drawn from edge_end to edge_start
PlotArgsSwapped(r) ==
    [xs |-> <<edge_end(r)[1], edge_start(r)[1]>>,
     ys |-> <<edge_end(r)[2], edge_start(r)[2]>>]

\* the arguments of ax_manual.plot: the two x coords, the two y coords
PlotArgs(r) ==
    [xs |-> <<edge_start(r)[1], edge_end(r)[1]>>,
     ys |-> <<edge_start(r)[2], edge_end(r)[2]>>]

(***************************************************************************)
(* The state machine.                                                      *)
(***************************************************************************)
Init ==
    /\ vor_vertices \in VertexArrays
    /\ vor_ridges \in RidgeLists(Len(vor_vertices))
    /\ pc = "loop"
    /\ pos = 0
    /\ lines = <<>>
    /\ shown = NoRun

\* the ridge the iterator hands out next
edge == vor_ridges[pos + 1]

Iterating == pc = "loop" /\ pos < Len(vor_ridges)

\* variant: a skipped ridge is also removed from the list
SkipDeletesRidge ==
    /\ Iterating
    /\ HasSentinel(edge)
    /\ vor_ridges' = SubSeq(vor_ridges, 1, pos) \o SubSeq(vor_ridges, pos + 2, Len(vor_ridges))
    /\ UNCHANGED <<vor_vertices, pc, pos, lines, shown>>

\* variant: continue without advancing the iterator
SkipStays ==
    /\ Iterating
    /\ HasSentinel(edge)
    /\ UNCHANGED vars

\* if -1 in edge: continue
Skip ==
    /\ Iterating
    /\ HasSentinel(edge)
    /\ pos' = pos + 1
    /\ UNCHANGED <<vor_vertices, vor_ridges, pc, lines, shown>>

\* variant: a line of zero length is not drawn
PlotDropsDegenerate ==
    /\ Iterating
    /\ ~HasSentinel(edge)
    /\ Resolves(edge)
    /\ lines' = IF edge_start(edge) = edge_end(edge)
                 THEN lines
                 ELSE Append(lines, PlotArgs(edge))
    /\ pos' = pos + 1
    /\ UNCHANGED <<vor_vertices, vor_ridges, pc, shown>>

\* both lookups succeed and the line is drawn
Plot ==
    /\ Iterating
    /\ ~HasSentinel(edge)
    /\ Resolves(edge)
    /\ lines' = Append(lines, PlotArgs(edge))
    /\ pos' = pos + 1
    /\ UNCHANGED <<vor_vertices, vor_ridges, pc, shown>>

\* variant: a failure discards the lines drawn before it
RaiseClearsAxes ==
    /\ Iterating
    /\ ~HasSentinel(edge)
    /\ ~Resolves(edge)
    /\ pc' = "IndexError"
    /\ pos' = pos + 1
    /\ lines' = <<>>
    /\ UNCHANGED <<vor_vertices, vor_ridges, shown>>

\* a lookup raises IndexError before ax_manual.plot is reached
Raise ==
    /\ Iterating
    /\ ~HasSentinel(edge)
    /\ ~Resolves(edge)
    /\ pc' = "IndexError"
    /\ pos' = pos + 1
    /\ UNCHANGED <<vor_vertices, vor_ridges, lines, shown>>

\* the iterator is exhausted; the rest of the cell draws no line
Finish ==
    /\ pc = "loop"
    /\ pos = Len(vor_ridges)
    /\ pc' = "done"
    /\ UNCHANGED <<vor_vertices, vor_ridges, pos, lines, shown>>

\* variant: the second run draws on the axes of the first
RerunKeepsAxes ==
    /\ pc # "loop"
    /\ shown' = [pc |-> pc, lines |-> lines]
    /\ pc' = "loop"
    /\ pos' = 0
    /\ UNCHANGED <<vor_vertices, vor_ridges, lines>>

\* the cell is run again: a new figure, new axes, a new iterator
Rerun ==
    /\ pc # "loop"
    /\ shown' = [pc |-> pc, lines |-> lines]
    /\ pc' = "loop"
    /\ pos' = 0
    /\ lines' = <<>>
    /\ UNCHANGED <<vor_vertices, vor_ridges>>

Next == Skip \/ Plot \/ Raise \/ Finish \/ Rerun

Spec == Init /\ [][Next]_vars

\* the kernel runs a started cell to its end
FairSpec == Spec /\ WF_vars(Skip \/ Plot \/ Raise \/ Finish)

(***************************************************************************)
(* Vocabulary of the properties.                                           *)
(***************************************************************************)
NV == Len(vor_vertices)

ValidIndex(i) == 0 <= i /\ i < NV

\* a pair whose entries are each the sentinel or a valid index
WellFormedRidge(r) ==
    Len(r) = 2 /\ \A k \in 1..2 : r[k] = Sentinel \/ ValidIndex(r[k])

WellFormedInput == \A k \in 1..Len(vor_ridges) : WellFormedRidge(vor_ridges[k])

\* a pair is finite iff neither of its two entries is the sentinel
Finite(r) == r[1] # Sentinel /\ r[2] # Sentinel

NoSentinel(r) == \A k \in 1..Len(r) : r[k] # Sentinel

\* the Segment of a finite ridge with valid indices: (start, end)
SegmentOf(r) == <<vor_vertices[r[1] + 1], vor_vertices[r[2] + 1]>>

\* the Segment a drawn line shows
SegmentDrawn(l) == <<<<l.xs[1], l.ys[1]>>, <<l.xs[2], l.ys[2]>>>>

Segments == [m \in 1..Len(lines) |-> SegmentDrawn(lines[m])]

Visited == SubSeq(vor_ridges, 1, pos)

Terminated == pc \in {"done", "IndexError"}

\* C1: on a ridge list of pairs whose entries are each -1 or a valid index,
\* the run never fails and the Segments emitted so far are those of the
\* visited ridges without a -1, one each, in list order; a finished run has
\* visited the whole list, so its output is the order-preserving filter of
\* the list (as long as the list when no ridge has a -1, empty when it is empty).
C1_OrderPreservingFilter ==
    WellFormedInput =>
        LET kept == SelectSeq(Visited, Finite)
        IN  /\ pc # "IndexError"
            /\ Segments = [m \in 1..Len(kept) |-> SegmentOf(kept[m])]
            /\ pc = "done" => pos = Len(vor_ridges)
            /\ (pc = "done" /\ \A k \in 1..Len(vor_ridges) : Finite(vor_ridges[k]))
                   => Len(lines) = Len(vor_ridges)

\* a finished run over a finite ridge followed by a ridge with one -1 entry
C1_Witness ==
    /\ WellFormedInput
    /\ pc = "done"
    /\ Len(vor_ridges) = 2
    /\ Finite(vor_ridges[1])
    /\ vor_ridges[2][1] # Sentinel /\ vor_ridges[2][2] = Sentinel
    /\ Len(lines) = 1

\* C2: a step on a finite ridge (i, j) with valid i and j draws exactly one
\* more line, whose x coordinates are those of vertex i then vertex j and
\* whose y coordinates are those of vertex i then vertex j: start from the
\* ridge's first entry, end from its second.
C2_EndpointsInRidgeOrder ==
    [][(Iterating /\ Len(edge) = 2 /\ ValidIndex(edge[1]) /\ ValidIndex(edge[2]))
        => lines' = Append(lines,
               [xs |-> <<vor_vertices[edge[1] + 1][1], vor_vertices[edge[2] + 1][1]>>,
                ys |-> <<vor_vertices[edge[1] + 1][2], vor_vertices[edge[2] + 1][2]>>])]_vars

\* the first two vertices and ridges (0,1), (-1,1): one line from (0,0) to (1,0)
C2_Witness ==
    /\ vor_vertices = <<<<0, 0>>, <<1, 0>>>>
    /\ vor_ridges = <<<<0, 1>>, <<Sentinel, 1>>>>
    /\ pc = "done"
    /\ lines = <<[xs |-> <<0, 1>>, ys |-> <<0, 0>>]>>

\* C8: a step on a degenerate ridge (i, i) with a valid i adds exactly one
\* Segment (vertex i, vertex i) at the end of the output and leaves the
\* Segments before it as they were.
C8_DegenerateRidgeKept ==
    [][(Iterating /\ Len(edge) = 2 /\ edge[1] = edge[2] /\ ValidIndex(edge[1]))
        => /\ Len(lines') = Len(lines) + 1
           /\ SubSeq(lines', 1, Len(lines)) = lines
           /\ SegmentDrawn(lines'[Len(lines')])
                  = <<vor_vertices[edge[1] + 1], vor_vertices[edge[1] + 1]>>]_vars

\* one vertex (0,0) and the ridge (0,0): the output is [((0,0),(0,0))]
C8_Witness ==
    /\ vor_vertices = <<<<0, 0>>>>
    /\ vor_ridges = <<<<0, 0>>>>
    /\ pc = "done"
    /\ Segments = <<<<<<0, 0>>, <<0, 0>>>>>>

\* C3 (for a ridge of two entries, neither of them the sentinel): a visited
\* ridge with an entry outside 0 <= index < |VertexSet| made the run fail
\* with an out-of-range error at that ridge; no line was drawn for it.
C3_OutOfRangeFails ==
    \A k \in 1..pos :
        (/\ Len(vor_ridges[k]) = 2
         /\ NoSentinel(vor_ridges[k])
         /\ \E e \in 1..2 : ~ValidIndex(vor_ridges[k][e]))
            => pc = "IndexError" /\ pos = k

\* C4 as stated: with no vertices, a run over a ridge list in which some
\* ridge has a non-sentinel entry ends in an out-of-range failure, also when
\* that entry is paired with the sentinel.
C4_AnyIndexFailsOnEmpty ==
    (/\ NV = 0
     /\ Terminated
     /\ \E k \in 1..Len(vor_ridges) :
            \E e \in 1..Len(vor_ridges[k]) : vor_ridges[k][e] # Sentinel)
        => pc = "IndexError"

\* C4 amended: with no vertices, a run fails with an out-of-range error
\* exactly when some ridge contains no sentinel, and it fails at the first
\* such ridge; a ridge that contains the sentinel is skipped whatever its
\* other entry is, and no line is ever drawn.
C4_SentinelFreeFailsOnEmpty ==
    (NV = 0 /\ Terminated) =>
        LET free == {k \in 1..Len(vor_ridges) : NoSentinel(vor_ridges[k])}
        IN  /\ lines = <<>>
            /\ pc = "IndexError" <=> free # {}
            /\ pc = "IndexError" => pos \in free /\ \A k \in free : pos <= k

\* no vertices, a ridge pairing the sentinel with another entry, run finished
C4_Witness ==
    /\ NV = 0
    /\ pc = "done"
    /\ Len(vor_ridges) >= 1
    /\ Len(vor_ridges[1]) = 2
    /\ vor_ridges[1][1] = Sentinel /\ vor_ridges[1][2] # Sentinel

\* C5: a visited ridge whose cardinality is not two made the run fail at
\* that ridge, whether or not it contains the sentinel.
C5_MalformedRidgeFails ==
    \A k \in 1..pos :
        Len(vor_ridges[k]) # 2 => pc = "IndexError" /\ pos = k

\* C6: a run that ends after an earlier run of the same inputs ends as the
\* earlier one did: the same outcome (done or the same error) and the same
\* lines in the same order.
C6_RerunSameResult ==
    (shown # NoRun /\ Terminated) => pc = shown.pc /\ lines = shown.lines

\* a second run that failed after drawing a line, as the first did
C6_Witness ==
    /\ shown # NoRun
    /\ pc = "IndexError"
    /\ Len(lines) >= 1

\* C7: no step changes the vertex array or the ridge list.
C7_InputsUnchanged ==
    [][vor_vertices' = vor_vertices /\ vor_ridges' = vor_ridges]_vars

\* a run that skipped a ridge and drew another, ended, and was run again
C7_Witness ==
    /\ shown # NoRun
    /\ Terminated
    /\ Len(vor_ridges) = 2
    /\ HasSentinel(vor_ridges[1])
    /\ Len(lines) = 1

\* C9: every run ends (done or failed), however often the cell is run; each
\* loop step hands out the next ridge in list order, exactly one, and draws
\* at most one line after those already drawn; a run that is done has handed
\* out each ridge once.
C9_SinglePassTerminates ==
    /\ []<>Terminated
    /\ [][pc = "loop" =>
            \/ /\ pos < Len(vor_ridges)
               /\ pos' = pos + 1
               /\ \/ lines' = lines
                  \/ Len(lines') = Len(lines) + 1 /\ SubSeq(lines', 1, Len(lines)) = lines
            \/ pos = Len(vor_ridges) /\ pos' = pos /\ lines' = lines /\ pc' = "done"]_vars
    /\ [](pc = "done" => pos = Len(vor_ridges))

\* a finished run over two ridges
C9_Witness ==
    /\ pc = "done"
    /\ pos = 2
    /\ Len(vor_ridges) = 2

\* C10: when the run has failed, the failing ridge is the last one handed
\* out, it has no sentinel, no line was drawn for it, and the lines drawn are
\* exactly those of the sentinel-free ridges before it, in order.
C10_FailureLeavesPrefix ==
    pc = "IndexError" =>
        /\ pos >= 1
        /\ NoSentinel(vor_ridges[pos])
        /\ LET before == SelectSeq(SubSeq(vor_ridges, 1, pos - 1), NoSentinel)
           IN  lines = [m \in 1..Len(before) |-> PlotArgs(before[m])]

\* a run that drew a line for its first ridge and failed at its second
C10_Witness ==
    /\ pc = "IndexError"
    /\ Len(lines) = 1
    /\ pos = 2

====
